---- MODULE Spec2Model ----
(***************************************************************************)
(* The session registry (Mom) and the per-session Watcher loop of          *)
(* mom/lib/mom.py, with the pane lookup of mom/lib/tmuxctl.py.             *)
(*                                                                         *)
(* Watcher objects live in the sequence ws (a Watcher's identity is its    *)
(* index); each has a loop thread whose position is ws[i].pc.  Registry    *)
(* operations run on caller threads (th); an operation is cut into steps   *)
(* only where another thread can observe the state in between.             *)
(* Timestamps of transcript entries are left out.                          *)
(***************************************************************************)
EXTENDS Integers, Sequences, FiniteSets, TLC

(* ----------------------------- bounds --------------------------------- *)

\* number of registry operations issued in one behaviour
MaxCalls == 3

\* c_env.MAX_TRANSCRIPT, run with a small configured value so that the trim
\* of add_status happens
MAX_TRANSCRIPT == 3

\* how many entries _format_transcript_tail keeps (30 in mom.py, line 154),
\* scaled down with MAX_TRANSCRIPT so that entries fall out of the tail
TRANSCRIPT_TAIL == 3

\* c_env.IDLE_THRESHOLD and c_env.IDLE_SPIN_POLL_SECS in ticks of the clock,
\* run with small configured values (the threshold is several polls long)
IDLE_THRESHOLD == 2
IDLE_SPIN_POLL_SECS == 1

\* the clock stops at MaxTime
MaxTime == 4

(* ------------------------- program constants -------------------------- *)

\* ensure_pane looks at the last five captured lines of a pane
LABEL_SCAN_LINES == 5

\* c_env.INJECT_PRESS_ENTER
INJECT_PRESS_ENTER == TRUE

\* c_env.TAIL_LINES
TAIL_LINES == 160

(* --------------------------- input domains ---------------------------- *)

\* Python's None
NONE == "<None>"

\* caller threads issuing registry operations
Threads == {1}
\* caller identities known to the transport; a call may also carry none
Clients == {"cl"}
ClientArgs == Clients \cup {NONE}
\* "a" occurs inside "ab", and inside the label line printed for "ab"
Keys == {"a", "ab"}
\* the tmux_window argument of look_ma: absent, empty or a key
KeyArgs == Keys \cup {NONE, ""}
Plans == {"g1", "g2"}
Statuses == {"s1"}
BashWaits == {NONE, "w"}
\* AssessOut: action and Optional[str] injection_prompt
AssessOuts == [action : {"stop", "continue"}, injection_prompt : {NONE, "", "c"}]
\* the two plain answers: stop, and continue with a command
PlainOuts == {[action |-> "stop", injection_prompt |-> NONE],
              [action |-> "continue", injection_prompt |-> "c"]}
NextSteps == [achieved : BOOLEAN, injection_prompt : {"c"}]
\* two caller threads, for operations that run at the same time
RaceThreads == {1, 2}
\* what the program running in a pane can make the pane show
Screens == {<<"[a]">>, <<"[a]", "c">>}

(* ------------------------------ text ---------------------------------- *)

\* The characters of the texts that can appear in a pane.
Chars(s) ==
    CASE s = "" -> << >>
      [] s = "a" -> <<"a">>
      [] s = "ab" -> <<"a", "b">>
      [] s = "[a]" -> <<"[", "a", "]">>
      [] s = "[ab]" -> <<"[", "a", "b", "]">>
      [] s = "c" -> <<"c">>
      [] OTHER -> <<"?">>

\* Python: label in ln
IsSubstr(label, ln) ==
    LET a == Chars(label)
        b == Chars(ln)
    IN \E i \in 0..(Len(b) - Len(a)) :
          \A j \in 1..Len(a) : b[i + j] = a[j]

\* the line printf '[label]\n' leaves in a fresh pane
LabelLine(label) == IF label = "a" THEN "[a]" ELSE "[ab]"

\* Python truthiness of an Optional[str]
Truthy(s) == s # NONE /\ s # ""

\* Python: seq[-n:]
LastN(seq, n) ==
    IF Len(seq) <= n THEN seq ELSE SubSeq(seq, Len(seq) - n + 1, Len(seq))

TranscriptEntry(role, text) == [role |-> role, text |-> text]

(* ------------------------------ state --------------------------------- *)

VARIABLES
    watchers,        \* Mom.watchers: insertion-ordered <<key, watcher>> pairs
    last_by_client,  \* Mom.last_by_client (NONE: no entry)
    ws,              \* the Watcher objects ever constructed
    panes,           \* the panes of the tmux window: captured lines, keys sent
    th,              \* caller threads: the registry operation in progress
    calls,           \* registry operations issued so far
    cleared,         \* keys whose clear returned "cleared", no attach since
    now              \* time.time(), in ticks

vars == <<watchers, last_by_client, ws, panes, th, calls, cleared, now>>

(* ----------------------------- registry ------------------------------- *)

RegisteredKeys == {watchers[i][1] : i \in 1..Len(watchers)}

\* key in self.watchers
Registered(k) == k \in RegisteredKeys

\* self.watchers[k]
WatcherOf(k) ==
    LET i == CHOOSE i \in 1..Len(watchers) : watchers[i][1] = k
    IN watchers[i][2]

\* a lookup that falls back to the first Watcher
LookupOrFirst(k) ==
    IF Registered(k) THEN WatcherOf(k)
    ELSE IF Len(watchers) > 0 THEN watchers[1][2] ELSE 0

\* self.watchers[k] as Mom.pause and Mom.look_ma use it: the Watcher, or 0
\* for KeyError
Lookup(k) == IF Registered(k) THEN WatcherOf(k) ELSE 0

\* self.watchers[k] = w  (a new key goes last, an old key keeps its place)
DictSet(d, k, w) ==
    IF \E i \in 1..Len(d) : d[i][1] = k
    THEN [i \in 1..Len(d) |-> IF d[i][1] = k THEN <<k, w>> ELSE d[i]]
    ELSE Append(d, <<k, w>>)

\* a pop that leaves the entry in place
DictDelKeeps(d, k) == d

\* a pop that removes the oldest entry, whatever its key
DictDelOldest(d, k) == IF Len(d) > 0 THEN Tail(d) ELSE d

\* self.watchers.pop(k, None), the remaining mapping
DictDel(d, k) == SelectSeq(d, LAMBDA e : e[1] # k)

\* Mom.set_active_for_client
SetActive(lbc, client_id, tmux_window) ==
    IF Truthy(client_id)
    THEN [lbc EXCEPT ![client_id] = tmux_window]
    ELSE lbc

\* _resolve_window with the remembered key tried before the explicit one
ResolveWindowRememberedFirst(client_id, tmux_window) ==
    IF Truthy(client_id) /\ last_by_client[client_id] # NONE
    THEN last_by_client[client_id]
    ELSE IF Truthy(tmux_window) THEN tmux_window
    ELSE IF Len(watchers) > 0 THEN watchers[1][1]
    ELSE "KeyError"

\* Mom._resolve_window: the key, or "KeyError"
ResolveWindow(client_id, tmux_window) ==
    IF Truthy(tmux_window) THEN tmux_window
    ELSE IF Truthy(client_id) /\ last_by_client[client_id] # NONE
         THEN last_by_client[client_id]
    ELSE IF Len(watchers) > 0 THEN watchers[1][1]
    ELSE "KeyError"

(* ------------------------------ panes --------------------------------- *)

\* one send_keys call as the pane saw it; by is the Watcher whose loop made
\* the call, 0 for the registry's own label command
KeysSent(text, enter, by) == [text |-> text, enter |-> enter, by |-> by]

\* pane.send_keys(text, enter): the typed text shows up as a line of the pane
\* (changed: when the pane's text last changed)
SendKeys(p, text, enter, by) ==
    [p EXCEPT !.lines = Append(@, text),
              !.sent = Append(@, KeysSent(text, enter, by)),
              !.changed = now]

\* the test of ensure_pane's loop for one pane
HasLabel(p, label) ==
    /\ Len(p.lines) > 0
    /\ \E n \in DOMAIN LastN(p.lines, LABEL_SCAN_LINES) :
          IsSubstr(label, LastN(p.lines, LABEL_SCAN_LINES)[n])

\* TmuxCtl.ensure_pane: the first pane showing the label, else a fresh pane
\* split off the last one (index Len(ps) + 1)
EnsurePaneIndex(ps, label) ==
    IF \E n \in 1..Len(ps) : HasLabel(ps[n], label)
    THEN CHOOSE n \in 1..Len(ps) :
            /\ HasLabel(ps[n], label)
            /\ \A m \in 1..(n - 1) : ~HasLabel(ps[m], label)
    ELSE Len(ps) + 1

\* the window's panes after ensure_pane(label)
EnsurePanePanes(ps, label) ==
    IF EnsurePaneIndex(ps, label) <= Len(ps)
    THEN ps
    ELSE Append(ps, [lines |-> <<LabelLine(label)>>,
                     sent |-> <<KeysSent(LabelLine(label), TRUE, 0)>>,
                     changed |-> now])

\* "\n".join(lines), kept as the lines joined: two texts are equal when
\* their lines are, and one empty line joins to the empty text
JoinLines(lines) == IF lines = <<"">> THEN << >> ELSE lines

\* TmuxCtl.tail(pane, n): the text of the last n lines, or the empty text
\* when capture_pane raises (ok = FALSE)
TmuxTail(p, n, ok) == IF ok THEN JoinLines(LastN(p.lines, n)) ELSE << >>

(* ----------------------------- Watcher -------------------------------- *)

\* Watcher.__init__
NewWatcher(name, pane, strategy_plan) ==
    [name |-> name,
     pane |-> pane,
     strategy_plan |-> strategy_plan,
     paused |-> FALSE,
     stop_event |-> FALSE,
     transcript |-> <<TranscriptEntry("plan", strategy_plan)>>,
     latest_status |-> "",
     latest_injection |-> << >>,
     events |-> << >>,
     last_snapshot |-> << >>,
     last_change_ts |-> now,
     \* the loop thread: position, locals of run(), and what the current
     \* cycle has done so far
     pc |-> "new",
     ev |-> NONE,
     evn |-> 0,
     wait_output |-> "",
     \* the prompt _assess has built, until _assess has returned
     prompt |-> << >>,
     assessment |-> << >>,
     decision |-> NONE,
     cycles |-> 0,
     trace |-> << >>,
     \* the spin: when its sleep ends, and how its latest capture went
     wake |-> 0,
     poll |-> "",
     \* how many times add_status has run on this Watcher, how many events
     \* were ever put on its queue and how many entries were ever appended
     \* to its transcript
     nstatus |-> 0,
     nput |-> 0,
     napp |-> 1,
     \* how many assessments so far said "continue" with a non-empty command
     ncont |-> 0]

\* one effect of the loop thread, as recorded in trace (pane: the pane a
\* send_keys went to, else 0)
Effect(op, role, text, pane) == [op |-> op, role |-> role, text |-> text, pane |-> pane]

\* self.transcript.append(TranscriptEntry(role, text, ...))
Appended(w, role, text) ==
    [w EXCEPT !.transcript = Append(@, TranscriptEntry(role, text)),
              !.napp = @ + 1]

\* the same, done by the loop thread
LoopAppended(w, role, text) ==
    [Appended(w, role, text) EXCEPT !.trace = Append(@, Effect("append", role, text, 0))]

\* update_plan starting the transcript over, as __init__ does
UpdatePlanRestarts(w, strategy_plan) ==
    [w EXCEPT !.strategy_plan = strategy_plan,
              !.transcript = <<TranscriptEntry("plan", strategy_plan)>>]

\* update_plan recording the new goal without adopting it
UpdatePlanKeepsGoal(w, strategy_plan) == Appended(w, "plan", strategy_plan)

\* update_plan taking a new goal as the end of the pause
UpdatePlanResumes(w, strategy_plan) ==
    Appended([w EXCEPT !.strategy_plan = strategy_plan, !.paused = FALSE],
             "plan", strategy_plan)

\* Watcher.update_plan
UpdatePlan(w, strategy_plan) ==
    Appended([w EXCEPT !.strategy_plan = strategy_plan], "plan", strategy_plan)

\* Watcher.add_status, lines 79-80
AddStatus(w, status_report) ==
    [Appended([w EXCEPT !.latest_status = status_report], "status", status_report)
        EXCEPT !.nstatus = @ + 1]

\* the event object of a look_ma call; n tells the objects apart: it is the
\* n-th put on its queue
WaitAfterReport(bash_wait, n) == [bash_wait |-> bash_wait, n |-> n]

\* a put that queues the event twice
EventsPutTwice(events, ev) == Append(Append(events, ev), ev)

\* watcher.events.put(ev)
EventsPut(events, ev) == Append(events, ev)

\* a get that takes the event put last
EventsGetNewest(events) == events[Len(events)]

\* self.events.get(): the event put first
EventsGet(events) == Head(events)

\* a wait step that runs whatever command text it is given, the empty one too
DoWaitRunsEmpty(bash_wait) ==
    IF bash_wait # NONE THEN "out:w" ELSE "[sleep]"

\* Watcher._do_wait: the command's output, or the description of the sleep
DoWait(bash_wait) ==
    IF Truthy(bash_wait) THEN "out:w" ELSE "[sleep]"

\* Python: seq reversed
Reverse(seq) == [n \in 1..Len(seq) |-> seq[Len(seq) - n + 1]]

\* entry.text[:200]: the texts of the model are shorter than that, but for
\* LongText, which stands for a longer one
LongText == "s2 and more than fits"
TrimText(text) == IF text = LongText THEN "s2 and" ELSE text

\* a tail that is one entry short
FormatTranscriptTailShort(transcript) ==
    Reverse([n \in 1..Len(LastN(transcript, TRANSCRIPT_TAIL - 1)) |->
                TranscriptEntry(LastN(transcript, TRANSCRIPT_TAIL - 1)[n].role,
                                TrimText(LastN(transcript, TRANSCRIPT_TAIL - 1)[n].text))])

\* Watcher._format_transcript_tail: the last entries, most recent first,
\* each text cut; one line per entry, kept as the sequence of the lines
\* (the time of day in a line is not modelled)
FormatTranscriptTail(transcript) ==
    Reverse([n \in 1..Len(LastN(transcript, TRANSCRIPT_TAIL)) |->
                TranscriptEntry(LastN(transcript, TRANSCRIPT_TAIL)[n].role,
                                TrimText(LastN(transcript, TRANSCRIPT_TAIL)[n].text))])

\* build_assess_prompt: a prompt made of the goal text, the transcript tail
\* and the wait output (pane_tail: what the capture of the pane may have
\* given, which the prompt is not said to carry)
BuildAssessPrompt(strategy_plan, transcript_tail, wait_output, pane_tail) ==
    [goal |-> strategy_plan, transcript_tail |-> transcript_tail,
     wait_output |-> wait_output]

\* build_prompt: the three sections of the prompt (html.escape leaves the
\* texts of the model as they are: none holds & < > or a quote; the cut of
\* the transcript section is beyond their lengths)
BuildPrompt(high_level_goal, transcript, wait_output) ==
    [high_level_goal |-> high_level_goal, transcript |-> transcript,
     wait_output |-> wait_output]

\* Watcher._pane_text as _assess uses it: the texts the capture can give
PaneTexts(w) == {TmuxTail(panes[w.pane], TAIL_LINES, ok) : ok \in BOOLEAN}

\* Watcher._assess, lines 142-144: the prompt of a cycle
AssessPrompt(w) ==
    BuildAssessPrompt(w.strategy_plan, FormatTranscriptTail(w.transcript),
                      w.wait_output, PaneTexts(w))

\* Watcher._synthesize_next_step, lines 166-167: the prompt of a pause; the
\* latest status goes where the transcript is expected and the pane's tail
\* where the wait output is
SynthPrompt(w, ok) ==
    BuildPrompt(w.strategy_plan, w.latest_status,
                TmuxTail(panes[w.pane], TAIL_LINES, ok))

\* _assess with the test of the action inverted
AssessResultInverted(assessment) ==
    IF assessment.action = "continue" THEN NONE ELSE assessment.injection_prompt

\* _assess returning the prompt whatever the action
AssessResultIgnoresAction(assessment) == assessment.injection_prompt

\* Watcher._assess, lines 148-151: what the loop does with the assessment
AssessResult(assessment) ==
    IF assessment.action = "stop" THEN NONE ELSE assessment.injection_prompt

\* the injection sent to the window's newest pane
InjectPaneNewest(w) == Len(panes)

\* the pane a Watcher's loop sends its injection to
InjectPane(w) == w.pane

(* --------------------------- loop thread ------------------------------ *)

\* a loop that never sees the stop flag
StopNeverSeen(w) == FALSE

\* self._stop_event.is_set()
StopIsSet(w) == w.stop_event

\* run(): while not self._stop_event.is_set(), on entry and after a cycle
\* (the locals of the finished cycle are dead from here on and are blanked)
LoopCheck(i) ==
    /\ ws[i].pc = "check"
    /\ ws' = [ws EXCEPT ![i].pc = IF StopIsSet(ws[i]) THEN "stopped" ELSE "get",
                     ![i].ev = NONE, ![i].evn = 0, ![i].wait_output = "",
                     ![i].assessment = << >>,
                     ![i].decision = NONE, ![i].trace = << >>, ![i].poll = ""]
    /\ UNCHANGED <<watchers, last_by_client, panes, th, calls, cleared, now>>

\* a get that hands out no event once the Watcher is paused
LoopGetUnlessPaused(i) ==
    /\ ws[i].pc = "get"
    /\ Len(ws[i].events) > 0
    /\ ~ws[i].paused
    /\ ws' = [ws EXCEPT ![i].ev = EventsGet(ws[i].events).bash_wait,
                        ![i].evn = EventsGet(ws[i].events).n,
                        ![i].events = Tail(@),
                        ![i].cycles = @ + 1,
                        ![i].pc = "wait"]
    /\ UNCHANGED <<watchers, last_by_client, panes, th, calls, cleared, now>>

\* run(): ev = self.events.get(timeout=POLL_SECS) returns an event
LoopGet(i) ==
    /\ ws[i].pc = "get"
    /\ Len(ws[i].events) > 0
    /\ ws' = [ws EXCEPT ![i].ev = EventsGet(ws[i].events).bash_wait,
                        ![i].evn = EventsGet(ws[i].events).n,
                        ![i].events = Tail(@),
                        ![i].cycles = @ + 1,
                        ![i].pc = "wait"]
    /\ UNCHANGED <<watchers, last_by_client, panes, th, calls, cleared, now>>

\* run(): the get times out (Empty), continue, and the while test finds the
\* stop flag set; with the flag clear the loop is back in the same get
LoopTimeout(i) ==
    /\ ws[i].pc = "get"
    /\ Len(ws[i].events) = 0
    /\ StopIsSet(ws[i])
    /\ ws' = [ws EXCEPT ![i].pc = "stopped"]
    /\ UNCHANGED <<watchers, last_by_client, panes, th, calls, cleared, now>>

\* run(): the wait step and its wait_output entry
LoopWait(i) ==
    /\ ws[i].pc = "wait"
    /\ ws' = [ws EXCEPT ![i] =
                 [LoopAppended(ws[i], "wait_output", DoWait(ws[i].ev))
                     EXCEPT !.wait_output = DoWait(ws[i].ev), !.pc = "spin"]]
    /\ UNCHANGED <<watchers, last_by_client, panes, th, calls, cleared, now>>

\* a spin that hands over to the assessor before recording its entry
LoopSpinUnrecorded(i) ==
    /\ ws[i].pc = "spin"
    /\ ws' = [ws EXCEPT ![i].pc = "assess"]
    /\ UNCHANGED <<watchers, last_by_client, panes, th, calls, cleared, now>>

\* _spin_until_idle as one step, its polls not followed: the spin ends and
\* records its idle_spin entry
LoopSpin(i) ==
    /\ ws[i].pc = "spin"
    /\ ws' = [ws EXCEPT ![i] =
                 [LoopAppended(ws[i], "idle_spin", "idle_for") EXCEPT !.pc = "assess"]]
    /\ UNCHANGED <<watchers, last_by_client, panes, th, calls, cleared, now>>

\* Watcher._update_idle, lines 109-111, with snap the captured text
UpdateIdle(w, snap) ==
    IF snap # w.last_snapshot
    THEN [w EXCEPT !.last_snapshot = snap, !.last_change_ts = now]
    ELSE w

\* Watcher.idle_for
IdleFor(w) == now - w.last_change_ts

\* _spin_until_idle, lines 131-139: one pass of the while loop. The pane is
\* captured (ok: capture_pane did not raise), then either the threshold is
\* met and the idle_spin entry is recorded, or the thread goes to sleep.
SpinPoll(i) ==
    /\ ws[i].pc = "spin"
    /\ \E ok \in BOOLEAN :
          LET w == [UpdateIdle(ws[i], TmuxTail(panes[ws[i].pane], TAIL_LINES, ok))
                       EXCEPT !.poll = IF ok THEN "ok" ELSE "failed"]
          IN ws' = [ws EXCEPT ![i] =
                       IF IdleFor(w) >= IDLE_THRESHOLD
                       THEN [LoopAppended(w, "idle_spin", "idle_for") EXCEPT !.pc = "assess"]
                       ELSE [w EXCEPT !.pc = "spin_sleep",
                                      !.wake = now + IDLE_SPIN_POLL_SECS]]
    /\ UNCHANGED <<watchers, last_by_client, panes, th, calls, cleared, now>>

\* _spin_until_idle, line 135: time.sleep(IDLE_SPIN_POLL_SECS) returns
SpinWake(i) ==
    /\ ws[i].pc = "spin_sleep"
    /\ now >= ws[i].wake
    /\ ws' = [ws EXCEPT ![i].pc = "spin", ![i].wake = 0]
    /\ UNCHANGED <<watchers, last_by_client, panes, th, calls, cleared, now>>

\* an assess step whose rendering reverses the log itself, not a copy
LoopAssessRendersInPlace(i, outs) ==
    /\ ws[i].pc = "assess"
    /\ \E out \in outs :
          ws' = [ws EXCEPT ![i].prompt = <<AssessPrompt(ws[i])>>,
                           ![i].transcript = Reverse(@),
                           ![i].assessment = <<out>>,
                           ![i].decision = AssessResult(out),
                           ![i].ncont = IF out.action = "continue" /\ Truthy(out.injection_prompt)
                                        THEN @ + 1 ELSE @,
                           ![i].trace = Append(@, Effect("assess", out.action, out.injection_prompt, 0)),
                           ![i].pc = "act"]
    /\ UNCHANGED <<watchers, last_by_client, panes, th, calls, cleared, now>>

\* _assess: the assessor answers one of outs
LoopAssess(i, outs) ==
    /\ ws[i].pc = "assess"
    /\ \E out \in outs :
          ws' = [ws EXCEPT ![i].prompt = <<AssessPrompt(ws[i])>>,
                           ![i].assessment = <<out>>,
                           ![i].decision = AssessResult(out),
                           ![i].ncont = IF out.action = "continue" /\ Truthy(out.injection_prompt)
                                        THEN @ + 1 ELSE @,
                           ![i].trace = Append(@, Effect("assess", out.action, out.injection_prompt, 0)),
                           ![i].pc = "act"]
    /\ UNCHANGED <<watchers, last_by_client, panes, th, calls, cleared, now>>

\* a core that asks the assessor again after a failure
LoopAssessRaisesRetries(i) ==
    /\ ws[i].pc = "assess"
    /\ ws' = [ws EXCEPT ![i].prompt = <<AssessPrompt(ws[i])>>,
                         ![i].trace = Append(@, Effect("assess", "raises", NONE, 0))]
    /\ UNCHANGED <<watchers, last_by_client, panes, th, calls, cleared, now>>

\* _assess: assessor.run_sync raises; the exception leaves run() and the
\* thread ends
LoopAssessRaises(i) ==
    /\ ws[i].pc = "assess"
    /\ ws' = [ws EXCEPT ![i].prompt = <<AssessPrompt(ws[i])>>,
                         ![i].trace = Append(@, Effect("assess", "raises", NONE, 0)),
                         ![i].pc = "crashed"]
    /\ UNCHANGED <<watchers, last_by_client, panes, th, calls, cleared, now>>

\* a loop that ends with the "stop" decision
LoopPauseEnds(i) ==
    /\ ws[i].pc = "act"
    /\ ws[i].decision = NONE
    /\ ws' = [ws EXCEPT ![i] =
                 [LoopAppended([ws[i] EXCEPT !.paused = TRUE,
                                             !.trace = Append(@, Effect("set_paused", "", "", 0))],
                               "decision", "stop")
                     EXCEPT !.prompt = << >>, !.pc = "stopped"]]
    /\ UNCHANGED <<watchers, last_by_client, panes, th, calls, cleared, now>>

\* run(), lines 63-65: decision is None
LoopPause(i) ==
    /\ ws[i].pc = "act"
    /\ ws[i].decision = NONE
    /\ ws' = [ws EXCEPT ![i] =
                 [LoopAppended([ws[i] EXCEPT !.paused = TRUE,
                                             !.trace = Append(@, Effect("set_paused", "", "", 0))],
                               "decision", "stop")
                     EXCEPT !.prompt = << >>, !.pc = "check"]]
    /\ UNCHANGED <<watchers, last_by_client, panes, th, calls, cleared, now>>

\* run(), lines 67-68: send the decision into the pane, record the injection
LoopInject(i) ==
    /\ ws[i].pc = "act"
    /\ ws[i].decision # NONE
    /\ panes' = [panes EXCEPT ![InjectPane(ws[i])] =
                    SendKeys(@, ws[i].decision, INJECT_PRESS_ENTER, i)]
    /\ ws' = [ws EXCEPT ![i] =
                 [LoopAppended([ws[i] EXCEPT !.trace =
                                   Append(@, Effect("send_keys",
                                                    IF INJECT_PRESS_ENTER THEN "enter" ELSE "",
                                                    ws[i].decision,
                                                    InjectPane(ws[i])))],
                               "injection", ws[i].decision)
                     EXCEPT !.prompt = << >>, !.pc = "log_dec"]]
    /\ UNCHANGED <<watchers, last_by_client, th, calls, cleared, now>>

\* run(), line 69
LoopLogDecision(i) ==
    /\ ws[i].pc = "log_dec"
    /\ ws' = [ws EXCEPT ![i] =
                 [LoopAppended(ws[i], "decision", "continue") EXCEPT !.pc = "check"]]
    /\ UNCHANGED <<watchers, last_by_client, panes, th, calls, cleared, now>>

Loop(i, outs) ==
    \/ LoopCheck(i)
    \/ LoopGet(i)
    \/ LoopTimeout(i)
    \/ LoopWait(i)
    \/ LoopSpin(i)
    \/ LoopAssess(i, outs)
    \/ LoopAssessRaises(i)
    \/ LoopPause(i)
    \/ LoopInject(i)
    \/ LoopLogDecision(i)

(* -------------------------- caller threads ---------------------------- *)

\* a caller thread between two operations; ret is what the last one returned
\* and n tells which call it was
IdleThread ==
    [pc |-> "idle", op |-> "", n |-> 0, client |-> NONE, key |-> NONE,
     text |-> "", bash |-> NONE, rkey |-> NONE, w |-> 0, tmp |-> << >>,
     ret |-> "", out |-> << >>,
     \* pause: the prompt the agent was given
     prompt |-> << >>]

\* a thread entering operation op
Call(op, client, key, text, bash) ==
    [IdleThread EXCEPT !.op = op, !.n = calls + 1, !.client = client,
                       !.key = key, !.text = text, !.bash = bash]

\* the operation of thread t returns (or raises) r
Returned(t, r) == [th[t] EXCEPT !.pc = "idle", !.ret = r, !.tmp = << >>]

\* the record of a NextStep without its achieved flag
PauseTextBare(ns) == ns.injection_prompt

\* the text pause() records for a NextStep
PauseText(ns) ==
    IF ns.achieved THEN "achieved=True; c" ELSE "achieved=False; c"

\* tool watch_me: set_active_for_client, then Mom.watch_me up to the
\* membership test of line 195
CallWatchMe(t, client_id, tmux_window, strategy_plan) ==
    /\ th[t].pc = "idle"
    /\ calls < MaxCalls
    /\ calls' = calls + 1
    /\ last_by_client' = SetActive(last_by_client, client_id, tmux_window)
    /\ th' = [th EXCEPT ![t] =
                 [Call("watch_me", client_id, tmux_window, strategy_plan, NONE)
                     EXCEPT !.pc = IF Registered(tmux_window)
                                   THEN "wm_update" ELSE "wm_create"]]
    /\ cleared' = cleared \ {tmux_window}
    /\ UNCHANGED <<watchers, ws, panes, now>>

\* Mom.watch_me, lines 196-197: look the Watcher up again and update_plan
WatchMeUpdate(t) ==
    /\ th[t].pc = "wm_update"
    /\ IF Registered(th[t].key)
       THEN /\ ws' = [ws EXCEPT ![WatcherOf(th[t].key)] = UpdatePlan(@, th[t].text)]
            /\ th' = [th EXCEPT ![t] = Returned(t, "updated")]
       ELSE /\ ws' = ws
            /\ th' = [th EXCEPT ![t] = Returned(t, "KeyError")]
    /\ cleared' = cleared \ {th[t].key}
    /\ UNCHANGED <<watchers, last_by_client, panes, calls, now>>

\* Mom.watch_me, lines 198-199: ensure_pane and the Watcher's construction
WatchMeCreate(t) ==
    /\ th[t].pc = "wm_create"
    /\ panes' = EnsurePanePanes(panes, th[t].key)
    /\ ws' = Append(ws, NewWatcher(th[t].key,
                                   EnsurePaneIndex(panes, th[t].key),
                                   th[t].text))
    /\ th' = [th EXCEPT ![t].pc = "wm_insert", ![t].w = Len(ws) + 1]
    /\ cleared' = cleared \ {th[t].key}
    /\ UNCHANGED <<watchers, last_by_client, calls, now>>

\* Mom.watch_me, lines 200-202: register the Watcher and start its thread
WatchMeInsert(t) ==
    /\ th[t].pc = "wm_insert"
    /\ watchers' = DictSet(watchers, th[t].key, th[t].w)
    /\ ws' = [ws EXCEPT ![th[t].w].pc = "check"]
    /\ th' = [th EXCEPT ![t] = Returned(t, "watching")]
    /\ cleared' = cleared \ {th[t].key}
    /\ UNCHANGED <<last_by_client, panes, calls, now>>

\* tool pause: set_active_for_client, Mom.pause's lookup, and the first
\* statement of Watcher.pause
CallPause(t, client_id, tmux_window) ==
    /\ th[t].pc = "idle"
    /\ calls < MaxCalls
    /\ calls' = calls + 1
    /\ last_by_client' = SetActive(last_by_client, client_id, tmux_window)
    /\ IF Lookup(tmux_window) # 0
       THEN /\ ws' = [ws EXCEPT ![Lookup(tmux_window)].paused = TRUE]
            /\ th' = [th EXCEPT ![t] =
                         [Call("pause", client_id, tmux_window, "", NONE)
                             EXCEPT !.pc = "p_synth", !.w = Lookup(tmux_window)]]
       ELSE /\ ws' = ws
            /\ th' = [th EXCEPT ![t] =
                         [Call("pause", client_id, tmux_window, "", NONE)
                             EXCEPT !.ret = "KeyError"]]
    /\ UNCHANGED <<watchers, panes, cleared, now>>

\* Watcher.pause, lines 87-99: the agent's next step is recorded and returned
PauseSynth(t) ==
    /\ th[t].pc = "p_synth"
    /\ \E ns \in NextSteps, ok \in BOOLEAN :
          /\ ws' = [ws EXCEPT ![th[t].w] =
                       Appended([@ EXCEPT !.latest_injection = <<ns>>],
                                "injection", PauseText(ns))]
          /\ th' = [th EXCEPT ![t] =
                       [Returned(t, "NextStep")
                           EXCEPT !.out = <<ns>>,
                                  !.prompt = <<SynthPrompt(ws[th[t].w], ok)>>]]
    /\ UNCHANGED <<watchers, last_by_client, panes, calls, cleared, now>>

\* tool clear: set_active_for_client, then Mom.clear's pop
\* (cost: what the call counts for in calls, 1 or 0)
CallClear(t, client_id, tmux_window, cost) ==
    /\ th[t].pc = "idle"
    /\ calls + cost <= MaxCalls
    /\ calls' = calls + cost
    /\ last_by_client' = SetActive(last_by_client, client_id, tmux_window)
    /\ watchers' = DictDel(watchers, tmux_window)
    /\ th' = [th EXCEPT ![t] =
                 IF Registered(tmux_window)
                 THEN [Call("clear", client_id, tmux_window, "", NONE)
                          EXCEPT !.pc = "c_stop", !.w = WatcherOf(tmux_window)]
                 ELSE [Call("clear", client_id, tmux_window, "", NONE)
                          EXCEPT !.ret = "noop"]]
    /\ UNCHANGED <<ws, panes, cleared, now>>

\* a clear that stops every Watcher there is
ClearStopAll(t) ==
    /\ th[t].pc = "c_stop"
    /\ ws' = [i \in 1..Len(ws) |-> [ws[i] EXCEPT !.stop_event = TRUE]]
    /\ th' = [th EXCEPT ![t] = Returned(t, "cleared")]
    /\ cleared' = cleared \cup {th[t].key}
    /\ UNCHANGED <<watchers, last_by_client, panes, calls, now>>

\* Mom.clear, lines 212-213: w.clear() sets the stop flag
ClearStop(t) ==
    /\ th[t].pc = "c_stop"
    /\ ws' = [ws EXCEPT ![th[t].w].stop_event = TRUE]
    /\ th' = [th EXCEPT ![t] = Returned(t, "cleared")]
    /\ cleared' = cleared \cup {th[t].key}
    /\ UNCHANGED <<watchers, last_by_client, panes, calls, now>>

\* Mom.look_ma, lines 216-217: resolve the key and look the Watcher up
CallLookMa(t, client_id, status_report, tmux_window, bash_wait) ==
    /\ th[t].pc = "idle"
    /\ calls < MaxCalls
    /\ calls' = calls + 1
    /\ th' = [th EXCEPT ![t] =
                 IF Lookup(ResolveWindow(client_id, tmux_window)) # 0
                 THEN [Call("look_ma", client_id, tmux_window, status_report, bash_wait)
                          EXCEPT !.pc = "lm_status",
                                 !.rkey = ResolveWindow(client_id, tmux_window),
                                 !.w = Lookup(ResolveWindow(client_id, tmux_window))]
                 ELSE [Call("look_ma", client_id, tmux_window, status_report, bash_wait)
                          EXCEPT !.rkey = ResolveWindow(client_id, tmux_window),
                                 !.ret = "KeyError"]]
    /\ UNCHANGED <<watchers, last_by_client, ws, panes, cleared, now>>

\* Watcher.add_status, lines 79-80, on the caller's thread
LookMaStatus(t) ==
    /\ th[t].pc = "lm_status"
    /\ ws' = [ws EXCEPT ![th[t].w] = AddStatus(@, th[t].text)]
    /\ th' = [th EXCEPT ![t].pc = "lm_trim"]
    /\ UNCHANGED <<watchers, last_by_client, panes, calls, cleared, now>>

\* Watcher.add_status, lines 82-83: the length test and the slice
LookMaTrim(t) ==
    /\ th[t].pc = "lm_trim"
    /\ th' = [th EXCEPT ![t] =
                 IF Len(ws[th[t].w].transcript) > MAX_TRANSCRIPT
                 THEN [@ EXCEPT !.pc = "lm_store",
                                !.tmp = LastN(ws[th[t].w].transcript, MAX_TRANSCRIPT)]
                 ELSE [@ EXCEPT !.pc = "lm_put"]]
    /\ UNCHANGED <<watchers, last_by_client, ws, panes, calls, cleared, now>>

\* Watcher.add_status, line 83: the slice is stored as the transcript
LookMaStore(t) ==
    /\ th[t].pc = "lm_store"
    /\ ws' = [ws EXCEPT ![th[t].w].transcript = th[t].tmp]
    /\ th' = [th EXCEPT ![t].pc = "lm_put", ![t].tmp = << >>]
    /\ UNCHANGED <<watchers, last_by_client, panes, calls, cleared, now>>

\* Mom.look_ma, lines 219-220: the trigger event is queued
LookMaPut(t) ==
    /\ th[t].pc = "lm_put"
    /\ ws' = [ws EXCEPT ![th[t].w].events =
                            EventsPut(@, WaitAfterReport(th[t].bash, ws[th[t].w].nput + 1)),
                        ![th[t].w].nput = @ + 1]
    /\ th' = [th EXCEPT ![t] = Returned(t, "recorded+waiting")]
    /\ UNCHANGED <<watchers, last_by_client, panes, calls, cleared, now>>

(* -------------------------- specification ----------------------------- *)

\* Mom.__init__, with the window's first pane of TmuxCtl._ensure_window
Init ==
    /\ watchers = << >>
    /\ last_by_client = [c \in Clients |-> NONE]
    /\ ws = << >>
    /\ panes = <<[lines |-> << >>, sent |-> << >>, changed |-> 0]>>
    /\ th = [t \in Threads |-> IdleThread]
    /\ calls = 0
    /\ cleared = {}
    /\ now = 0

\* the steps that continue an operation in progress
Continue(t) ==
    \/ WatchMeUpdate(t)
    \/ WatchMeCreate(t)
    \/ WatchMeInsert(t)
    \/ PauseSynth(t)
    \/ ClearStop(t)
    \/ LookMaStatus(t)
    \/ LookMaTrim(t)
    \/ LookMaStore(t)
    \/ LookMaPut(t)

\* Several sessions and caller identities; one goal text, the default wait,
\* and an assessor that gives plain answers.
Next ==
    \/ \E t \in Threads, c \in ClientArgs, k \in Keys : CallWatchMe(t, c, k, "g1")
    \/ \E t \in Threads, c \in ClientArgs, k \in Keys : CallPause(t, c, k)
    \/ \E t \in Threads, c \in ClientArgs, k \in Keys : CallClear(t, c, k, 1)
    \/ \E t \in Threads, c \in ClientArgs, k \in KeyArgs :
          CallLookMa(t, c, "s1", k, NONE)
    \/ \E t \in Threads : Continue(t)
    \/ \E i \in 1..Len(ws) : Loop(i, PlainOuts)

Spec == Init /\ [][Next]_vars

\* One session, addressed by key or by the fallback of _resolve_window; every
\* goal text, wait command and assessor answer.
NextSession ==
    \/ \E t \in Threads, g \in Plans : CallWatchMe(t, NONE, "a", g)
    \/ \E t \in Threads : CallPause(t, NONE, "a")
    \/ \E t \in Threads : CallClear(t, NONE, "a", 1)
    \/ \E t \in Threads, s \in Statuses, k \in {NONE, "a"}, b \in BashWaits :
          CallLookMa(t, NONE, s, k, b)
    \/ \E t \in Threads : Continue(t)
    \/ \E i \in 1..Len(ws) : Loop(i, AssessOuts)

SpecSession == Init /\ [][NextSession]_vars

\* As Next, with clear calls not counted in calls: a clear starts no work,
\* so the behaviours stay bounded.
NextFreeClear ==
    \/ \E t \in Threads, c \in ClientArgs, k \in Keys : CallWatchMe(t, c, k, "g1")
    \/ \E t \in Threads, c \in ClientArgs, k \in Keys : CallPause(t, c, k)
    \/ \E t \in Threads, c \in ClientArgs, k \in Keys : CallClear(t, c, k, 0)
    \/ \E t \in Threads, c \in ClientArgs, k \in KeyArgs :
          CallLookMa(t, c, "s1", k, NONE)
    \/ \E t \in Threads : Continue(t)
    \/ \E i \in 1..Len(ws) : Loop(i, PlainOuts)

SpecFreeClear == Init /\ [][NextFreeClear]_vars

(* --------------------- time and the pane's program -------------------- *)

\* time passes
Tick ==
    /\ now < MaxTime
    /\ now' = now + 1
    /\ UNCHANGED <<watchers, last_by_client, ws, panes, th, calls, cleared>>

\* the program running in a watched pane changes what the pane shows
PaneShows(n, screen) ==
    /\ \E i \in 1..Len(ws) : ws[i].pane = n
    /\ panes[n].lines # screen
    /\ panes' = [panes EXCEPT ![n].lines = screen, ![n].changed = now]
    /\ UNCHANGED <<watchers, last_by_client, ws, th, calls, cleared, now>>

\* One session with the clock running: the spin is followed poll by poll
\* while the pane's text changes and captures fail.
NextSettle ==
    \/ \E t \in Threads : CallWatchMe(t, NONE, "a", "g1")
    \/ \E t \in Threads : CallClear(t, NONE, "a", 1)
    \/ \E t \in Threads : CallLookMa(t, NONE, "s1", "a", NONE)
    \/ \E t \in Threads : WatchMeUpdate(t)
    \/ \E t \in Threads : WatchMeCreate(t)
    \/ \E t \in Threads : WatchMeInsert(t)
    \/ \E t \in Threads : ClearStop(t)
    \/ \E t \in Threads : LookMaStatus(t)
    \/ \E t \in Threads : LookMaTrim(t)
    \/ \E t \in Threads : LookMaStore(t)
    \/ \E t \in Threads : LookMaPut(t)
    \/ \E i \in 1..Len(ws) : LoopCheck(i)
    \/ \E i \in 1..Len(ws) : LoopGet(i)
    \/ \E i \in 1..Len(ws) : LoopTimeout(i)
    \/ \E i \in 1..Len(ws) : LoopWait(i)
    \/ \E i \in 1..Len(ws) : SpinPoll(i)
    \/ \E i \in 1..Len(ws) : SpinWake(i)
    \/ \E i \in 1..Len(ws) : LoopAssess(i, PlainOuts)
    \/ \E i \in 1..Len(ws) : LoopPause(i)
    \/ \E i \in 1..Len(ws) : LoopInject(i)
    \/ \E i \in 1..Len(ws) : LoopLogDecision(i)
    \/ \E n \in 1..Len(panes), screen \in Screens : PaneShows(n, screen)
    \/ Tick

SpecSettle == Init /\ [][NextSettle]_vars

\* Mom.__init__ with two caller threads
InitRace ==
    /\ watchers = << >>
    /\ last_by_client = [c \in Clients |-> NONE]
    /\ ws = << >>
    /\ panes = <<[lines |-> << >>, sent |-> << >>, changed |-> 0]>>
    /\ th = [t \in RaceThreads |-> IdleThread]
    /\ calls = 0
    /\ cleared = {}
    /\ now = 0

\* Two callers attaching and clearing one session at the same time.
NextRace ==
    \/ \E t \in RaceThreads : CallWatchMe(t, NONE, "a", "g1")
    \/ \E t \in RaceThreads : CallClear(t, NONE, "a", 1)
    \/ \E t \in RaceThreads : WatchMeUpdate(t)
    \/ \E t \in RaceThreads : WatchMeCreate(t)
    \/ \E t \in RaceThreads : WatchMeInsert(t)
    \/ \E t \in RaceThreads : ClearStop(t)
    \/ \E i \in 1..Len(ws) : LoopCheck(i)
    \/ \E i \in 1..Len(ws) : LoopTimeout(i)

SpecRace == InitRace /\ [][NextRace]_vars

\* One session, with every loop thread scheduled again and again: a step
\* of run() that can be taken is taken in the end.
NextLive ==
    \/ \E t \in Threads : CallWatchMe(t, NONE, "a", "g1")
    \/ \E t \in Threads : CallPause(t, NONE, "a")
    \/ \E t \in Threads : CallClear(t, NONE, "a", 1)
    \/ \E t \in Threads : CallLookMa(t, NONE, "s1", "a", NONE)
    \/ \E t \in Threads : Continue(t)
    \/ \E i \in 1..Len(ws) : Loop(i, PlainOuts)

\* the loop thread of the n-th Watcher, once it exists
LoopThread(n) == n \in 1..Len(ws) /\ Loop(n, PlainOuts)

SpecLive ==
    /\ Init
    /\ [][NextLive]_vars
    /\ \A n \in 1..MaxCalls : WF_vars(LoopThread(n))

(* ------------------------- the decision cycle ------------------------- *)

\* Watcher i has just finished a cycle: its loop is back at the while test
\* and the cycle's assessment and effects are still at hand
CycleDone(i) == ws[i].pc = "check" /\ ws[i].assessment # << >>

\* the assessment of the cycle of Watcher i
Assessment(i) == ws[i].assessment[1]

\* what every cycle does before it acts on the assessment
CyclePrefix(i) ==
    <<Effect("append", "wait_output", DoWait(ws[i].ev), 0),
      Effect("append", "idle_spin", "idle_for", 0),
      Effect("assess", Assessment(i).action, Assessment(i).injection_prompt, 0)>>

\* the send_keys calls Watcher i's loop has made, as the panes saw them
SentBy(i) ==
    LET All(n) == SelectSeq(panes[n].sent, LAMBDA r : r.by = i)
    IN [n \in 1..Len(panes) |-> All(n)]

\* C1: a cycle whose assessment is "continue" with a non-empty command c has
\* called send_keys(c, enter=True) on the Watcher's own pane exactly once,
\* then appended an injection entry with text c and then a decision entry
\* "continue", and has not set paused.
C1_ContinueInjectsOnce ==
    \A i \in 1..Len(ws) :
        (CycleDone(i) /\ Assessment(i).action = "continue"
                      /\ Truthy(Assessment(i).injection_prompt))
        => /\ ws[i].trace = CyclePrefix(i) \o
                 <<Effect("send_keys", "enter", Assessment(i).injection_prompt, ws[i].pane),
                   Effect("append", "injection", Assessment(i).injection_prompt, 0),
                   Effect("append", "decision", "continue", 0)>>
           /\ Len(SentBy(i)[ws[i].pane]) > 0
           /\ SentBy(i)[ws[i].pane][Len(SentBy(i)[ws[i].pane])] =
                 KeysSent(Assessment(i).injection_prompt, TRUE, i)

C1_Witness ==
    \E i \in 1..Len(ws) :
        /\ CycleDone(i)
        /\ Assessment(i) = [action |-> "continue", injection_prompt |-> "c"]
        /\ ~ws[i].paused
        /\ Len(panes[ws[i].pane].sent) > 1

\* C2: a cycle whose assessment is "stop" has made no send_keys call, has
\* appended no injection entry and exactly one decision entry, "stop", and
\* leaves the Watcher paused.
C2_StopPauses ==
    \A i \in 1..Len(ws) :
        (CycleDone(i) /\ Assessment(i).action = "stop")
        => /\ ws[i].trace = CyclePrefix(i) \o
                 <<Effect("set_paused", "", "", 0),
                   Effect("append", "decision", "stop", 0)>>
           /\ ws[i].paused

C2_Witness ==
    \E i \in 1..Len(ws) :
        /\ CycleDone(i)
        /\ Assessment(i) = [action |-> "stop", injection_prompt |-> "c"]
        /\ ws[i].paused
        /\ SentBy(i)[ws[i].pane] = << >>

\* C3: a cycle whose assessment is "continue" with an empty or absent command
\* has made no send_keys call, has appended a decision entry that carries the
\* missing-command marker, has not set paused, and is back waiting.
C3_EmptyCommandIsNoop ==
    \A i \in 1..Len(ws) :
        (CycleDone(i) /\ Assessment(i).action = "continue"
                      /\ ~Truthy(Assessment(i).injection_prompt))
        => /\ \A n \in 1..Len(ws[i].trace) :
                  ws[i].trace[n].op \notin {"send_keys", "set_paused"}
           /\ \E n \in 1..Len(ws[i].trace) :
                  ws[i].trace[n] =
                      Effect("append", "decision", "Missing command to continue", 0)

(* ------------------------ registry operations ------------------------- *)

\* this step is thread t entering operation op
IsCall(t, op) ==
    /\ th[t].pc = "idle"
    /\ calls' = calls + 1
    /\ th'[t].op = op
    /\ th'[t].n = calls'

\* this step takes thread t from position pc to the next one
StepsFrom(t, pc) == th[t].pc = pc /\ th'[t].pc # pc

\* C4: clear(k) on a registered key removes the Watcher from the mapping and
\* returns "cleared"; once it has returned, and until the next attach of k,
\* every clear(k) returns "noop" and every record_status addressed to k
\* fails with KeyError and changes no Watcher, whatever the cleared
\* Watcher's loop is doing.
C4_ClearThenNoop ==
    [][\A t \in Threads, k \in Keys :
          /\ (IsCall(t, "clear") /\ th'[t].key = k /\ Registered(k))
             => (th'[t].pc = "c_stop" /\ ~Registered(k)')
          /\ (StepsFrom(t, "c_stop") /\ th[t].key = k)
             => (th'[t].pc = "idle" /\ th'[t].ret = "cleared" /\ ~Registered(k)')
          /\ (k \in cleared /\ IsCall(t, "clear") /\ th'[t].key = k)
             => (th'[t].pc = "idle" /\ th'[t].ret = "noop")
          /\ (k \in cleared /\ IsCall(t, "look_ma") /\ th'[t].key = k)
             => (th'[t].pc = "idle" /\ th'[t].ret = "KeyError" /\ ws' = ws)
      ]_vars

C4_Witness ==
    \E t \in Threads, i \in 1..Len(ws) :
        /\ ws[i].name \in cleared
        /\ th[t].op = "look_ma"
        /\ th[t].key = ws[i].name
        /\ th[t].ret = "KeyError"
        /\ ws[i].stop_event
        /\ ws[i].pc = "get"

\* C5: watch_me on a key without a Watcher constructs exactly one Watcher, on
\* a pane that shows the key's label, registers it and starts its loop;
\* watch_me on a key with a Watcher returns "updated", replaces the goal,
\* appends one plan entry and changes nothing else: the same Watcher stays
\* registered, with its loop position, queue, flags and earlier entries.
C5_AttachCreatesOrUpdates ==
    [][\A t \in Threads :
          /\ IsCall(t, "watch_me")
             => th'[t].pc = IF Registered(th'[t].key) THEN "wm_update" ELSE "wm_create"
          /\ StepsFrom(t, "wm_create")
             => /\ th'[t].pc = "wm_insert"
                /\ Len(ws') = Len(ws) + 1
                /\ \A j \in 1..Len(ws) : ws'[j] = ws[j]
                /\ th'[t].w = Len(ws')
                /\ ws'[Len(ws')].name = th[t].key
                /\ ws'[Len(ws')].strategy_plan = th[t].text
                /\ ws'[Len(ws')].transcript = <<TranscriptEntry("plan", th[t].text)>>
                /\ ws'[Len(ws')].pane \in 1..Len(panes')
                /\ HasLabel(panes'[ws'[Len(ws')].pane], th[t].key)
          /\ StepsFrom(t, "wm_insert")
             => /\ th'[t].ret = "watching"
                /\ Lookup(th[t].key)' = th[t].w
                /\ ws' = [ws EXCEPT ![th[t].w].pc = "check"]
                /\ ws[th[t].w].pc = "new"
          /\ (StepsFrom(t, "wm_update") /\ Registered(th[t].key))
             => /\ th'[t].ret = "updated"
                /\ watchers' = watchers
                /\ ws' = [ws EXCEPT
                            ![WatcherOf(th[t].key)].strategy_plan = th[t].text,
                            ![WatcherOf(th[t].key)].transcript =
                                Append(@, TranscriptEntry("plan", th[t].text)),
                            ![WatcherOf(th[t].key)].napp = @ + 1]
      ]_vars

C5_Witness ==
    \E t \in Threads, i \in 1..Len(ws) :
        /\ th[t].op = "watch_me"
        /\ th[t].ret = "updated"
        /\ Lookup(th[t].key) = i
        /\ ws[i].strategy_plan = "g2"
        /\ ws[i].transcript[1] = TranscriptEntry("plan", "g1")
        /\ ws[i].transcript[Len(ws[i].transcript)] = TranscriptEntry("plan", "g2")
        /\ Len(ws[i].events) > 0

\* look_ma calls that have recorded their status on Watcher i and not yet
\* queued their event
StatusOnly(i) ==
    Cardinality({t \in Threads : th[t].pc \in {"lm_trim", "lm_store", "lm_put"}
                                  /\ th[t].w = i})

C7_UnknownKeyFails ==
    [][\A t \in Threads :
          ((IsCall(t, "pause") \/ (IsCall(t, "look_ma") /\ Truthy(th'[t].key)))
              /\ ~Registered(th'[t].key))
          => /\ th'[t].pc = "idle"
             /\ th'[t].ret = "KeyError"
             /\ watchers' = watchers
             /\ ws' = ws
      ]_vars

C7_Witness ==
    \E t \in Threads :
        /\ th[t].op = "pause"
        /\ th[t].ret = "KeyError"
        /\ ~Registered(th[t].key)
        /\ Len(watchers) > 0

\* the caller has a remembered last-active key
Remembers(c) == Truthy(c) /\ last_by_client[c] # NONE

\* C8: look_ma resolves to the explicit key when one is given; else to the
\* caller's remembered key when it has one; else to a key of the Watcher
\* mapping when the mapping is not empty; else it fails with KeyError.
C8_ResolveOrder ==
    [][\A t \in Threads :
          IsCall(t, "look_ma")
          => /\ Truthy(th'[t].key) => th'[t].rkey = th'[t].key
             /\ (~Truthy(th'[t].key) /\ Remembers(th'[t].client))
                => th'[t].rkey = last_by_client[th'[t].client]
             /\ (~Truthy(th'[t].key) /\ ~Remembers(th'[t].client) /\ Len(watchers) > 0)
                => th'[t].rkey \in RegisteredKeys
             /\ (~Truthy(th'[t].key) /\ ~Remembers(th'[t].client) /\ Len(watchers) = 0)
                => (th'[t].rkey = "KeyError" /\ th'[t].ret = "KeyError")
      ]_vars

C8_Witness ==
    \E t \in Threads :
        /\ th[t].op = "look_ma"
        /\ th[t].key = NONE
        /\ th[t].client = "cl"
        /\ th[t].rkey = "ab"
        /\ Len(watchers) = 2
        /\ watchers[1][1] = "a"

\* C9: a look_ma without explicit key by a caller whose remembered key was
\* cleared (and not attached again) falls through to the live Watchers: it
\* succeeds whenever the mapping is not empty.
C9_StaleKeyFallsThrough ==
    [][\A t \in Threads :
          (/\ IsCall(t, "look_ma")
           /\ ~Truthy(th'[t].key)
           /\ Remembers(th'[t].client)
           /\ last_by_client[th'[t].client] \in cleared
           /\ ~Registered(last_by_client[th'[t].client])
           /\ Len(watchers) > 0)
          => /\ th'[t].rkey \in RegisteredKeys
             /\ th'[t].pc = "lm_status"
      ]_vars

InCycle(i) == ws[i].pc \in {"wait", "spin", "spin_sleep", "assess", "act", "log_dec"}

\* C11: the events queued on a Watcher are the puts not yet taken, oldest
\* first; the n-th cycle of a Watcher runs on the n-th event put on its
\* queue; and a cycle starts only from the blocked get, hence after the
\* cycle before it has finished.
C11_EventsInOrder ==
    /\ [](\A i \in 1..Len(ws) :
             /\ ws[i].cycles + Len(ws[i].events) = ws[i].nput
             /\ \A j \in 1..Len(ws[i].events) : ws[i].events[j].n = ws[i].cycles + j
             /\ InCycle(i) => ws[i].evn = ws[i].cycles)
    /\ [][\A i \in 1..Len(ws) :
             /\ ws'[i].cycles # ws[i].cycles
                => /\ ws[i].pc = "get"
                   /\ ws'[i].pc = "wait"
                   /\ ws'[i].cycles = ws[i].cycles + 1
                   /\ ws'[i].evn = ws'[i].cycles
                   /\ ws'[i].ev = ws[i].events[1].bash_wait
                   /\ ws'[i].events = Tail(ws[i].events)
             /\ (InCycle(i) /\ ws'[i].pc # ws[i].pc)
                => /\ ws'[i].cycles = ws[i].cycles
                   /\ ws'[i].evn = ws[i].evn
                   /\ ws'[i].ev = ws[i].ev
         ]_vars

C11_Witness ==
    \E i \in 1..Len(ws) :
        /\ ws[i].cycles = 1
        /\ InCycle(i)
        /\ ws[i].ev = "w"
        /\ ws[i].evn = 1
        /\ ws[i].events = <<[bash_wait |-> NONE, n |-> 2]>>

(* ------------------------------ stopping ------------------------------ *)

\* C12: a loop that is in its wait step or in the spin when the stop flag is
\* set does not go on to the assessor: from there it only stays in the wait
\* and the spin, or goes to Stopped.
C12_StopAbandonsCycle ==
    [][\A i \in 1..Len(ws) :
          (ws[i].stop_event /\ ws[i].pc \in {"wait", "spin", "spin_sleep"})
          => ws'[i].pc \in {"wait", "spin", "spin_sleep", "stopped"}
      ]_vars

C14_StopEndsSpin ==
    [][\A i \in 1..Len(ws) :
          (ws[i].stop_event /\ ws[i].pc = "spin") => ws'[i].pc # "spin_sleep"
      ]_vars

(* ----------------------------- transcript ----------------------------- *)

\* an add_status on Watcher i is between its append and its trim
Trimming(i) ==
    \E t \in Threads : th[t].pc \in {"lm_trim", "lm_store"} /\ th[t].w = i

\* C15: once more than MAX_TRANSCRIPT entries have been appended to a
\* Watcher's transcript, the transcript has exactly MAX_TRANSCRIPT entries
\* (so far as a length can tell, the ones appended last).
C15_TranscriptCapped ==
    \A i \in 1..Len(ws) :
        (~Trimming(i) /\ ws[i].napp > MAX_TRANSCRIPT)
        => Len(ws[i].transcript) = MAX_TRANSCRIPT

(* -------------------------- the idle detector ------------------------- *)

\* C16: the spin ends no earlier than IDLE_THRESHOLD after the pane's text
\* last changed, and on ending appends one idle_spin entry.
C16_SettleWaitsThreshold ==
    [][\A i \in 1..Len(ws) :
          (ws[i].pc = "spin" /\ ws'[i].pc = "assess")
          => /\ now >= panes[ws[i].pane].changed + IDLE_THRESHOLD
             /\ ws'[i].transcript =
                    Append(ws[i].transcript, TranscriptEntry("idle_spin", "idle_for"))
      ]_vars

\* C17: a poll whose capture fails leaves last_snapshot and last_change_ts
\* as they were, and the loop goes on (to sleep, or on to the assessor).
C17_FailedCaptureIsNoChange ==
    [][\A i \in 1..Len(ws) :
          (ws[i].pc = "spin" /\ ws'[i].pc # "spin" /\ ws'[i].poll = "failed")
          => /\ ws'[i].last_snapshot = ws[i].last_snapshot
             /\ ws'[i].last_change_ts = ws[i].last_change_ts
             /\ ws'[i].pc \in {"spin_sleep", "assess"}
      ]_vars

(* ------------------------------- pause -------------------------------- *)

BeingCleared(i) ==
    \E t \in RaceThreads : th[t].pc = "c_stop" /\ th[t].w = i

\* thread t is on the creating branch of watch_me for key k
Creating(t, k) == th[t].pc \in {"wm_create", "wm_insert"} /\ th[t].key = k

\* C19: attach calls are serialized: two callers are never both on the
\* creating branch of watch_me for one key; of the Watchers constructed for
\* one key at most one has not been told to stop; and a started Watcher that
\* has not been told to stop is the one its key maps to.
C19_AttachSerialized ==
    /\ \A t \in RaceThreads, u \in RaceThreads, k \in Keys :
          (Creating(t, k) /\ Creating(u, k)) => t = u
    /\ \A i \in 1..Len(ws), j \in 1..Len(ws) :
          (i # j /\ ws[i].name = ws[j].name)
          => (ws[i].stop_event \/ ws[j].stop_event \/ BeingCleared(i) \/ BeingCleared(j))
    /\ \A i \in 1..Len(ws) :
          (ws[i].pc # "new" /\ ~ws[i].stop_event /\ ~BeingCleared(i))
          => Lookup(ws[i].name) = i

C21_PaneExclusive ==
    \A m \in 1..Len(watchers), n \in 1..Len(watchers) :
        watchers[m][1] # watchers[n][1]
        => ws[watchers[m][2]].pane # ws[watchers[n][2]].pane

\* C22: the transcript of a Watcher is written by its own loop thread only:
\* no step of a caller thread (watch_me on a registered key, look_ma, pause)
\* changes the transcript of a Watcher that already exists.
C22_LoopIsOnlyWriter ==
    [][\A i \in 1..Len(ws) :
          ws'[i].transcript # ws[i].transcript => th' = th]_vars

(* --------------------------- failing assessor -------------------------- *)

\* the assessor calls of the current cycle of Watcher i
AssessCalls(i) == SelectSeq(ws[i].trace, LAMBDA e : e.op = "assess")

\* C23: a cycle asks the assessor at most once. When that call raises, the
\* cycle has appended its wait_output and idle_spin entries and done
\* nothing else: no send_keys, no injection or decision entry, paused not
\* set by it. The exception ends the loop: from then on the loop appends
\* nothing, sends nothing and starts no cycle.
C23_FailedAssessNoRetry ==
    /\ [](\A i \in 1..Len(ws) :
            /\ Len(AssessCalls(i)) <= 1
            /\ ws[i].pc = "crashed"
               => /\ ws[i].trace =
                        <<Effect("append", "wait_output", DoWait(ws[i].ev), 0),
                          Effect("append", "idle_spin", "idle_for", 0),
                          Effect("assess", "raises", NONE, 0)>>
                  /\ ws[i].assessment = << >>)
    /\ [][\A i \in 1..Len(ws) :
            ws[i].pc = "crashed"
            => /\ ws'[i].pc = "crashed"
               /\ ws'[i].trace = ws[i].trace
               /\ ws'[i].cycles = ws[i].cycles
               /\ \A n \in 1..Len(panes) :
                     SelectSeq(panes'[n].sent, LAMBDA r : r.by = i) = SentBy(i)[n]]_vars

C23_Witness ==
    \E i \in 1..Len(ws) :
        /\ ws[i].pc = "crashed"
        /\ ws[i].cycles = 1
        /\ Len(ws[i].events) > 0
        /\ SentBy(i)[ws[i].pane] = << >>

(* ------------------------- after a "stop" cycle ------------------------ *)

WaitThenSpin(i) ==
    <<Effect("append", "wait_output", DoWait(ws[i].ev), 0),
      Effect("append", "idle_spin", "idle_for", 0)>>

\* C25: the steps of a cycle come in one order. The cycle starts after the
\* status entry of its event was appended; the wait step appends the
\* wait_output entry at the end of the transcript; then the spin appends one
\* idle_spin entry at the end of the transcript; only then is the assessor
\* asked, once; send_keys, the injection entry and the decision entry come
\* after that, the decision entry last.
C25_CycleOrdered ==
    /\ [](\A i \in 1..Len(ws) :
            /\ InCycle(i) => (ws[i].evn >= 1 /\ ws[i].nstatus >= ws[i].evn)
            /\ ws[i].pc = "wait" => ws[i].trace = << >>
            /\ ws[i].pc = "spin" => ws[i].trace = SubSeq(WaitThenSpin(i), 1, 1)
            /\ ws[i].pc = "assess" => ws[i].trace = WaitThenSpin(i)
            /\ ws[i].pc = "act" => ws[i].trace = CyclePrefix(i)
            /\ ws[i].pc = "log_dec"
               => /\ SubSeq(ws[i].trace, 1, 3) = CyclePrefix(i)
                  /\ Len(ws[i].trace) = 5
                  /\ ws[i].trace[4].op = "send_keys"
                  /\ ws[i].trace[5].role = "injection"
            /\ CycleDone(i)
               => /\ SubSeq(ws[i].trace, 1, 3) = CyclePrefix(i)
                  /\ \A n \in 1..Len(ws[i].trace) :
                        ws[i].trace[n].role = "decision" <=> n = Len(ws[i].trace))
    /\ [][\A i \in 1..Len(ws) :
            /\ (ws[i].pc = "wait" /\ ws'[i].pc # "wait")
               => /\ ws'[i].pc = "spin"
                  /\ ws'[i].transcript =
                        Append(ws[i].transcript,
                               TranscriptEntry("wait_output", DoWait(ws[i].ev)))
            /\ (ws[i].pc = "spin" /\ ws'[i].pc # "spin")
               => /\ ws'[i].pc = "assess"
                  /\ ws'[i].transcript =
                        Append(ws[i].transcript, TranscriptEntry("idle_spin", "idle_for"))]_vars

\* a finished "continue" cycle whose transcript shows the order
C25_Witness ==
    \E i \in 1..Len(ws) :
        /\ CycleDone(i)
        /\ Len(ws[i].trace) = 6
        /\ LET t == ws[i].transcript
           IN /\ Len(t) >= 5
              /\ [n \in 1..5 |-> t[Len(t) - 5 + n].role] =
                    <<"status", "wait_output", "idle_spin", "injection", "decision">>

(* --------------------------- cap on every append ----------------------- *)

\* C26: outside the two statements of add_status that append and then trim,
\* no Watcher's transcript is longer than MAX_TRANSCRIPT, whichever
\* operation appended last.
C26_LengthAtMostCap ==
    \A i \in 1..Len(ws) :
        ~Trimming(i) => Len(ws[i].transcript) <= MAX_TRANSCRIPT

(* ------------------------ injections and events ------------------------ *)

\* C27: the send_keys calls a Watcher's loop has made on its pane are at
\* most as many as the events it has dequeued, and, once a decision has been
\* acted on, exactly as many as the cycles whose decision was "continue"
\* with a non-empty command; a cycle asks the assessor at most once.
C27_InjectionsMatchDecisions ==
    \A i \in 1..Len(ws) :
        /\ Len(SentBy(i)[ws[i].pane]) <= ws[i].cycles
        /\ ws[i].pc # "act" => Len(SentBy(i)[ws[i].pane]) = ws[i].ncont
        /\ Len(AssessCalls(i)) <= 1

(* --------------------- what the assessor is shown ---------------------- *)

\* the arguments of the n-th look_ma call of a session, told apart by n: the
\* status texts differ (the second is long), and the wait payloads go
\* through a command, the empty command and none
StatusNo(n) == <<"s1", LongText, "s3", "s4", "s5">>[n]
BashNo(n) == <<"w", "", NONE, "w", "">>[n]

\* One session whose look_ma calls carry arguments that tell them apart,
\* with the goal replaced and pause called in between.
NextPrompt ==
    \/ \E t \in Threads, g \in Plans : CallWatchMe(t, NONE, "a", g)
    \/ \E t \in Threads : CallPause(t, NONE, "a")
    \/ \E t \in Threads : CallClear(t, NONE, "a", 1)
    \/ \E t \in Threads :
          /\ Registered("a")
          /\ CallLookMa(t, NONE, StatusNo(ws[WatcherOf("a")].nstatus + 1), "a",
                        BashNo(ws[WatcherOf("a")].nstatus + 1))
    \/ \E t \in Threads : Continue(t)
    \/ \E i \in 1..Len(ws) : Loop(i, PlainOuts)

SpecPrompt == Init /\ [][NextPrompt]_vars

\* this step is Watcher i's call of the assessor (answered or failed)
AssessStep(i) == ws[i].pc = "assess" /\ ws'[i].pc \in {"act", "crashed"}

\* the prompt of that call
PromptGiven(i) == ws'[i].prompt[1]

\* the prompt carries the goal as it is at the call and the text of the
\* cycle's wait_output entry
PromptGoalAndWait(i) ==
    /\ PromptGiven(i).goal = ws[i].strategy_plan
    /\ ws[i].trace[1].role = "wait_output"
    /\ PromptGiven(i).wait_output = ws[i].trace[1].text

\* C28 as claimed: the prompt of a cycle carries the current goal, the
\* cycle's wait output, and a transcript tail with the status text of the
\* look_ma call that queued the cycle's event.
C28_PromptShowsTrigger ==
    [][\A i \in 1..Len(ws) :
          AssessStep(i)
          => /\ PromptGoalAndWait(i)
             /\ \E k \in DOMAIN PromptGiven(i).transcript_tail :
                   PromptGiven(i).transcript_tail[k] =
                       TranscriptEntry("status", StatusNo(ws[i].evn))]_vars

\* C28 as amended: the prompt of a cycle carries the current goal, the
\* cycle's wait output, and the last TRANSCRIPT_TAIL entries of the
\* transcript, most recent first, with their texts cut; the status entry of
\* the look_ma call that queued the cycle's event is in it, with its text
\* cut, exactly when it is among the last TRANSCRIPT_TAIL entries of the
\* transcript at the call.
C28_PromptShowsRecentTrigger ==
    [][\A i \in 1..Len(ws) :
          AssessStep(i)
          => /\ PromptGoalAndWait(i)
             /\ Len(PromptGiven(i).transcript_tail) <= TRANSCRIPT_TAIL
             /\ \A k \in 1..Len(ws[i].transcript) :
                   LET e == ws[i].transcript[Len(ws[i].transcript) - k + 1]
                       cut == TranscriptEntry("status", TrimText(StatusNo(ws[i].evn)))
                   IN e = TranscriptEntry("status", StatusNo(ws[i].evn))
                      => IF k <= TRANSCRIPT_TAIL
                         THEN /\ k <= Len(PromptGiven(i).transcript_tail)
                              /\ PromptGiven(i).transcript_tail[k] = cut
                         ELSE \A j \in DOMAIN PromptGiven(i).transcript_tail :
                                 PromptGiven(i).transcript_tail[j] # cut]_vars

\* the second event's cycle has shown the assessor its long status, cut
C28_Witness ==
    \E i \in 1..Len(ws) :
        /\ ws[i].pc = "act"
        /\ ws[i].evn = 2
        /\ ws[i].prompt[1].goal = "g2"
        /\ ws[i].prompt[1].wait_output = "[sleep]"
        /\ Len(ws[i].prompt[1].transcript_tail) = TRANSCRIPT_TAIL
        /\ ws[i].prompt[1].transcript_tail[3] = TranscriptEntry("status", "s2 and")

(* ------------------------- replacing the goal -------------------------- *)

\* the goal of the latest plan entry of a transcript (NONE: it has none)
LastPlan(transcript) ==
    LET plans == SelectSeq(transcript, LAMBDA e : e.role = "plan")
    IN IF plans = << >> THEN NONE ELSE plans[Len(plans)].text

\* C29: watch_me on a registered key appends one plan entry with the new
\* goal at the end of the transcript and returns "updated"; nothing else
\* changes a Watcher's goal; and every call of the assessor by the loop, and
\* of the agent by pause, is given the goal of the latest plan entry the
\* transcript holds.
C29_LatestGoalIsUsed ==
    [][/\ \A t \in Threads :
            /\ (StepsFrom(t, "wm_update") /\ th'[t].ret = "updated")
               => /\ ws'[WatcherOf(th[t].key)].transcript =
                         Append(ws[WatcherOf(th[t].key)].transcript,
                                TranscriptEntry("plan", th[t].text))
                  /\ ws'[WatcherOf(th[t].key)].strategy_plan = th[t].text
            /\ StepsFrom(t, "p_synth")
               => LastPlan(ws[th[t].w].transcript)
                     \in {NONE, th'[t].prompt[1].high_level_goal}
       /\ \A i \in 1..Len(ws) :
            /\ AssessStep(i)
               => LastPlan(ws[i].transcript) \in {NONE, PromptGiven(i).goal}
            /\ ws'[i].strategy_plan # ws[i].strategy_plan
               => \E t \in Threads :
                     StepsFrom(t, "wm_update") /\ WatcherOf(th[t].key) = i]_vars

\* the goal was replaced while an event was queued: the cycle shows the
\* assessor the new goal, and the transcript holds both plan entries in
\* the order of the calls
C29_Witness ==
    \E i \in 1..Len(ws) :
        /\ ws[i].pc = "act"
        /\ ws[i].prompt[1].goal = "g2"
        /\ Len(ws[i].transcript) >= 3
        /\ ws[i].transcript[1] = TranscriptEntry("plan", "g1")
        /\ ws[i].transcript[3] = TranscriptEntry("plan", "g2")

(* --------------------------- the wait payload -------------------------- *)

\* what the wait step of the n-th look_ma call of a session has to give:
\* the output of its command, or the description of the default sleep when
\* it has no command or an empty one
WaitOutputNo(n) == IF BashNo(n) \in {NONE, ""} THEN "[sleep]" ELSE "out:w"

\* C30: a cycle works on the payload of the event it dequeued, which is
\* that of the look_ma call that queued it; once the wait step is done, its
\* result is the output of that call's command, or the description of the
\* sleep when the call gave no command or an empty one, and that text is
\* the cycle's wait_output entry and the wait output in the assessor's
\* prompt.
C30_WaitPayloadOfEvent ==
    /\ [](\A i \in 1..Len(ws) :
            /\ InCycle(i) => ws[i].ev = BashNo(ws[i].evn)
            /\ (InCycle(i) /\ ws[i].pc # "wait")
               => /\ ws[i].wait_output = WaitOutputNo(ws[i].evn)
                  /\ ws[i].trace[1] =
                        Effect("append", "wait_output", WaitOutputNo(ws[i].evn), 0)
            /\ ws[i].prompt # << >>
               => ws[i].prompt[1].wait_output = WaitOutputNo(ws[i].evn))
    /\ [][\A i \in 1..Len(ws) :
            (ws[i].pc = "wait" /\ ws'[i].pc # "wait")
            => ws'[i].transcript =
                  Append(ws[i].transcript,
                         TranscriptEntry("wait_output", WaitOutputNo(ws[i].evn)))]_vars

\* the second call's empty command was queued while the first call's
\* command had not run yet; the second cycle sleeps
C30_Witness ==
    \E i \in 1..Len(ws) :
        /\ ws[i].pc = "act"
        /\ ws[i].evn = 2
        /\ ws[i].ev = ""
        /\ ws[i].prompt[1].wait_output = "[sleep]"
        /\ \E n \in 2..Len(ws[i].transcript) :
              /\ ws[i].transcript[n] = TranscriptEntry("wait_output", "out:w")
              /\ ws[i].transcript[n - 1] = TranscriptEntry("status", LongText)

\* ---------------------------------------------------------------------
\* The mapping from caller identity to the key it addressed last

\* thread t enters an operation in this step
Enters(t) == calls' = calls + 1 /\ th'[t].n = calls'

\* C31: whenever a caller with an identity enters an operation that names a
\* session key (watch_me, pause, clear, or look_ma with an explicit key),
\* the mapping afterwards holds that key for that caller; the entries of
\* the other callers stay as they were; a call without a caller identity,
\* and every step that is not the entry of a call, changes no entry.
C31_MappingTracksAddressed ==
    [][/\ \A t \in Threads :
            Enters(t)
            => /\ (Truthy(th'[t].client) /\ Truthy(th'[t].key))
                  => last_by_client'[th'[t].client] = th'[t].key
               /\ \A d \in Clients :
                     d # th'[t].client => last_by_client'[d] = last_by_client[d]
               /\ ~Truthy(th'[t].client) => last_by_client' = last_by_client
       /\ calls' = calls => last_by_client' = last_by_client]_vars

\* ---------------------------------------------------------------------
\* Rendering the transcript tail

\* the number of entries a rendering of transcript shows
TailLen(transcript) ==
    IF Len(transcript) < TRANSCRIPT_TAIL THEN Len(transcript) ELSE TRANSCRIPT_TAIL

\* C32: the rendering made for an assessor call shows the last
\* TRANSCRIPT_TAIL entries of the transcript (all of them when there are
\* fewer), the most recent first, each with its role and its text cut to
\* the line length; the transcript is the same sequence after the
\* rendering as before it.
C32_RenderLeavesLog ==
    [][\A i \in 1..Len(ws) :
          AssessStep(i)
          => /\ ws'[i].transcript = ws[i].transcript
             /\ Len(PromptGiven(i).transcript_tail) = TailLen(ws[i].transcript)
             /\ \A n \in 1..TailLen(ws[i].transcript) :
                   /\ n <= Len(PromptGiven(i).transcript_tail)
                   /\ PromptGiven(i).transcript_tail[n].role =
                         ws[i].transcript[Len(ws[i].transcript) - n + 1].role
                   /\ PromptGiven(i).transcript_tail[n].text =
                         TrimText(ws[i].transcript[Len(ws[i].transcript) - n + 1].text)]_vars

\* a rendering of a transcript longer than the tail, whose first line is the
\* transcript's newest entry and differs from its last line
C32_Witness ==
    \E i \in 1..Len(ws) :
        /\ ws[i].pc = "act"
        /\ Len(ws[i].transcript) > TRANSCRIPT_TAIL
        /\ Len(ws[i].prompt[1].transcript_tail) = TRANSCRIPT_TAIL
        /\ ws[i].prompt[1].transcript_tail[1].role =
              ws[i].transcript[Len(ws[i].transcript)].role
        /\ ws[i].prompt[1].transcript_tail[1].role = "idle_spin"
        /\ ws[i].prompt[1].transcript_tail[TRANSCRIPT_TAIL].role = "status"
        /\ ws[i].transcript[1].role = "plan"

\* ---------------------------------------------------------------------
\* Every queued trigger event gets its decision

\* the cycle of the k-th event of Watcher n has ended with its decision
\* entry: the loop is past that cycle, at or beyond the while test
Decided(n, k) ==
    \/ ws[n].cycles > k
    \/ ws[n].cycles = k /\ ws[n].pc \in {"check", "get", "stopped"}

\* C33: with every loop thread scheduled again and again (each blocking
\* step of a cycle returns), the k-th event that look_ma calls returning
\* "recorded+waiting" have queued on a Watcher is in the end processed to
\* the end of its cycle, unless the Watcher is cleared or the assessor
\* raises; and a cycle ends in no other way than by appending its
\* "decision" entry.
C33_QueuedEventDecided ==
    /\ \A n \in 1..MaxCalls, k \in 1..MaxCalls :
          (n \in 1..Len(ws) /\ ws[n].nput >= k)
             ~> (n \in 1..Len(ws)
                 /\ (Decided(n, k) \/ ws[n].stop_event \/ ws[n].pc = "crashed"))
    /\ [][\A i \in 1..Len(ws) :
            (InCycle(i) /\ ws'[i].pc \in {"check", "get", "stopped"})
            => /\ ws'[i].pc = "check"
               /\ ws'[i].cycles = ws[i].cycles
               /\ \E d \in {"stop", "continue"} :
                     ws'[i].transcript =
                        Append(ws[i].transcript, TranscriptEntry("decision", d))]_vars

\* the second event of a Watcher that was paused by the decision on its
\* first one, and never cleared, has got its decision
C33_Witness ==
    \E i \in 1..Len(ws) :
        /\ ws[i].nput = 2
        /\ ws[i].paused
        /\ ~ws[i].stop_event
        /\ ws[i].pc = "check"
        /\ ws[i].cycles = 2
        /\ ws[i].transcript[Len(ws[i].transcript)].role = "decision"

\* ---------------------------------------------------------------------
\* The transcript as a window on everything appended

\* seq is the end of whole
IsSuffix(seq, whole) ==
    /\ Len(seq) <= Len(whole)
    /\ \A n \in 1..Len(seq) : seq[n] = whole[Len(whole) - Len(seq) + n]

\* C34: the transcript is at all times the end of the sequence of all
\* entries ever appended to it: a step either leaves it, or drops entries
\* from its front, or appends one entry at its end (and may drop from the
\* front); no step removes an entry that has a later one kept.
C34_TranscriptIsSuffix ==
    [][\A i \in 1..Len(ws) :
          \/ IsSuffix(ws'[i].transcript, ws[i].transcript)
          \/ /\ ws'[i].napp = ws[i].napp + 1
             /\ Len(ws'[i].transcript) > 0
             /\ IsSuffix(ws'[i].transcript,
                         Append(ws[i].transcript,
                                ws'[i].transcript[Len(ws'[i].transcript)]))]_vars

\* ---------------------------------------------------------------------
\* A status report racing with a clear

\* One session with two callers: reports and clears at the same time.
NextReportClear ==
    \/ \E t \in RaceThreads : CallWatchMe(t, NONE, "a", "g1")
    \/ \E t \in RaceThreads : CallLookMa(t, NONE, "s1", "a", NONE)
    \/ \E t \in RaceThreads : CallClear(t, NONE, "a", 1)
    \/ \E t \in RaceThreads : WatchMeUpdate(t)
    \/ \E t \in RaceThreads : WatchMeCreate(t)
    \/ \E t \in RaceThreads : WatchMeInsert(t)
    \/ \E t \in RaceThreads : ClearStop(t)
    \/ \E t \in RaceThreads : LookMaStatus(t)
    \/ \E t \in RaceThreads : LookMaTrim(t)
    \/ \E t \in RaceThreads : LookMaStore(t)
    \/ \E t \in RaceThreads : LookMaPut(t)
    \/ \E i \in 1..Len(ws) : Loop(i, PlainOuts)

SpecReportClear == InitRace /\ [][NextReportClear]_vars

\* C35: a look_ma call that returns "recorded+waiting" has queued its event
\* on a Watcher whose loop has not ended: an event is never put on the
\* queue of a Watcher that has stopped, where nothing will take it.
C35_NoReportToStopped ==
    [][\A t \in RaceThreads :
          (th[t].pc = "lm_put" /\ th'[t].ret = "recorded+waiting")
          => ws[th[t].w].pc # "stopped"]_vars

\* ---------------------------------------------------------------------
\* No cycle after the stop request

\* C36: a Watcher whose stop flag is set starts no cycle: an event that is
\* in its queue when the flag is set stays there, so that no wait step, no
\* assessor call and no injection is made for it.
C36_NoCycleAfterStop ==
    [][\A i \in 1..Len(ws) :
          ws[i].stop_event
          => /\ ws'[i].cycles = ws[i].cycles
             /\ ws'[i].events = ws[i].events
             /\ (~InCycle(i) => ~InCycle(i)')]_vars

\* ---------------------------------------------------------------------
\* One live Watcher per pane

\* the loop thread of Watcher i has been started and has not ended
Live(i) == ws[i].pc \notin {"new", "stopped", "crashed"}

\* One session that is cleared and attached again; clear calls are not
\* counted in calls.
NextReattach ==
    \/ \E t \in Threads : CallWatchMe(t, NONE, "a", "g1")
    \/ \E t \in Threads : CallClear(t, NONE, "a", 0)
    \/ \E t \in Threads : CallLookMa(t, NONE, "s1", "a", NONE)
    \/ \E t \in Threads : WatchMeUpdate(t)
    \/ \E t \in Threads : WatchMeCreate(t)
    \/ \E t \in Threads : WatchMeInsert(t)
    \/ \E t \in Threads : ClearStop(t)
    \/ \E t \in Threads : LookMaStatus(t)
    \/ \E t \in Threads : LookMaTrim(t)
    \/ \E t \in Threads : LookMaStore(t)
    \/ \E t \in Threads : LookMaPut(t)
    \/ \E i \in 1..Len(ws) : Loop(i, PlainOuts)

SpecReattach == Init /\ [][NextReattach]_vars

\* C37: no two Watchers whose loop threads are alive are bound to the same
\* pane, and a loop never sends keys into a pane that another live Watcher
\* is bound to; in particular not the loop of a cleared Watcher that is
\* finishing its cycle after its key has been attached again.
C37_OneLiveWatcherPerPane ==
    /\ [](\A i \in 1..Len(ws), j \in 1..Len(ws) :
            (i # j /\ Live(i) /\ Live(j)) => ws[i].pane # ws[j].pane)
    /\ [][\A i \in 1..Len(ws), j \in 1..Len(ws) :
            (i # j /\ Live(j) /\ ws[i].pc = "act" /\ ws'[i].pc = "log_dec")
            => ws[j].pane # InjectPane(ws[i])]_vars

\* ---------------------------------------------------------------------
\* Sessions do not touch each other

\* the key the operation of thread t is addressed to, after a step of it:
\* the key look_ma has resolved, else the key given
AddressedKey(t) == IF th'[t].op = "look_ma" THEN th'[t].rkey ELSE th'[t].key

\* the loop of Watcher j is not ended and not blocked on an empty queue
Runnable(j) ==
    \/ ws[j].pc \in {"check", "wait", "spin", "assess", "act", "log_dec"}
    \/ ws[j].pc = "get" /\ Len(ws[j].events) > 0

\* C38: a step of a registry operation addressed to key k leaves every
\* Watcher of another key as it is (stop flag, paused flag, goal, event
\* queue, transcript and the rest) and leaves the mapping entry of every
\* other key in place; and a loop that has something to do can take its
\* step whatever the other Watchers' loops are doing.
C38_OtherSessionsUntouched ==
    /\ [][\A t \in Threads :
            th'[t] # th[t]
            => /\ \A i \in 1..Len(ws) :
                     ws[i].name # AddressedKey(t) => ws'[i] = ws[i]
               /\ \A n \in 1..Len(watchers) :
                     watchers[n][1] # AddressedKey(t)
                     => \E m \in 1..Len(watchers') : watchers'[m] = watchers[n]]_vars
    /\ [](\A j \in 1..Len(ws) : Runnable(j) => ENABLED Loop(j, PlainOuts))

\* a report addressed to "a" has been recorded and queued, and the loop of
\* "a" is in the assessor call of its cycle; the Watcher of "ab" is
\* registered and as it was constructed, and its loop can take its step
C38_Witness ==
    /\ th[1].op = "look_ma"
    /\ th[1].ret = "recorded+waiting"
    /\ th[1].rkey = "a"
    /\ \E i \in 1..Len(ws), j \in 1..Len(ws) :
          /\ ws[i].name = "a"
          /\ ws[i].pc = "assess"
          /\ ws[j].name = "ab"
          /\ Lookup("ab") = j
          /\ ws[j].pc = "check"
          /\ ws[j].events = << >>
          /\ ws[j].transcript = <<TranscriptEntry("plan", "g1")>>
          /\ ~ws[j].paused
          /\ ~ws[j].stop_event

\* ---------------------------------------------------------------------
\* The paused flag

\* this step is the stop decision of a cycle of Watcher i (run(), line 64)
StopDecisionStep(i) == ws[i].pc = "act" /\ ws[i].decision = NONE /\ ws'[i].pc = "check"

\* this step is the first statement of a pause on Watcher i (line 86)
PauseCallStep(i) ==
    \E t \in Threads : th[t].pc = "idle" /\ th'[t].op = "pause" /\ th'[t].w = i

\* C39: a Watcher is constructed with paused false; the flag becomes true
\* only by the stop decision of a cycle or by a pause call on that Watcher;
\* once true it stays true through every later step (an attach that updates
\* the goal, a status report, a cycle that decides to continue and injects);
\* and a paused Watcher with a queued event still takes it.
C39_PausedMonotone ==
    /\ [][/\ \A i \in 1..Len(ws) :
               /\ ws[i].paused => ws'[i].paused
               /\ (~ws[i].paused /\ ws'[i].paused)
                  => (StopDecisionStep(i) \/ PauseCallStep(i))
          /\ \A i \in (Len(ws) + 1)..Len(ws') : ~ws'[i].paused]_vars
    /\ [](\A i \in 1..Len(ws) :
            (ws[i].paused /\ ws[i].pc = "get" /\ Len(ws[i].events) > 0)
            => ENABLED LoopGet(i))

\* a Watcher paused by the stop decision of its first cycle has injected on
\* the continue decision of its second cycle and is still paused
C39_Witness ==
    \E i \in 1..Len(ws) :
        /\ ws[i].paused
        /\ ws[i].pc = "check"
        /\ ws[i].cycles = 2
        /\ ws[i].ncont = 1
        /\ ws[i].transcript[Len(ws[i].transcript)] = TranscriptEntry("decision", "continue")
        /\ ws[i].transcript[Len(ws[i].transcript) - 1].role = "injection"
        /\ th[1].op = "look_ma"

====
